---- MODULE Spec2Model ----
(***************************************************************************)
(* Model of imageUnderstanding.py: the image resolver get_image_path, the  *)
(* vision client (analyze_image, compare_images) and the command loop of   *)
(* main.  Python strings are TLA+ strings; the image directory is the set  *)
(* of the file names it holds.                                             *)
(***************************************************************************)
EXTENDS Integers, Sequences, FiniteSets, TLC

VARIABLES
    files,      \* names of the entries of IMAGE_DIR
    op,         \* the operation that ran last
    args,       \* the arguments it was given (a sequence of strings)
    res,        \* outcome of the last get_image_path call made directly
    ret,        \* outcome of the last analyze_image / compare_images call
    calls,      \* generate_content calls made by that invocation
    resolved,   \* outcomes of the get_image_path calls made by that invocation
    env,        \* what Image.open and the remote model did in that invocation
    status,     \* main's loop: "running", "exited" (break) or "crashed"
    fault,      \* the exception that left main, "" when none
    out,        \* what the last command printed, one string per print call
    quitSeen    \* TRUE once a line whose first token is quit was read

vars == <<files, op, args, res, ret, calls, resolved, env, status, fault, out, quitSeen>>

-----------------------------------------------------------------------------
(* Bounds of the model *)

\* longest argument list of a command line read by main
MaxArgs == 3

-----------------------------------------------------------------------------
(* Python string helpers *)

Char(s, i) == SubSeq(s, i, i)

UpperChars == "ABCDEFGHIJKLMNOPQRSTUVWXYZ"
LowerChars == "abcdefghijklmnopqrstuvwxyz"

UpperSet == {Char(UpperChars, i) : i \in 1..Len(UpperChars)}

\* the lower-case letter of every upper-case letter
LowerOf ==
    [c \in UpperSet |->
        Char(LowerChars, CHOOSE i \in 1..Len(UpperChars) : Char(UpperChars, i) = c)]

\* str.lower on one character
LowerChar(c) == IF c \in UpperSet THEN LowerOf[c] ELSE c

RECURSIVE lower(_)
\* str.lower
lower(s) ==
    IF s = "" THEN ""
    ELSE LowerChar(Char(s, 1)) \o lower(SubSeq(s, 2, Len(s)))

\* the Python expression  c in s  for a one-character c
Contains(s, c) == \E i \in 1..Len(s) : Char(s, i) = c

\* str.rfind, 1-based; 0 when c does not occur
rfind(s, c) ==
    IF Contains(s, c)
    THEN CHOOSE i \in 1..Len(s) :
            /\ Char(s, i) = c
            /\ \A j \in (i + 1)..Len(s) : Char(s, j) # c
    ELSE 0

\* needle occurs in s as a substring
HasSubstring(s, needle) ==
    \E i \in 1..(Len(s) + 1) :
        /\ i + Len(needle) - 1 <= Len(s)
        /\ SubSeq(s, i, i + Len(needle) - 1) = needle

\* str.startswith
StartsWith(s, prefix) ==
    /\ Len(prefix) <= Len(s)
    /\ SubSeq(s, 1, Len(prefix)) = prefix

\* str.endswith
EndsWith(s, tail) ==
    /\ Len(tail) <= Len(s)
    /\ SubSeq(s, Len(s) - Len(tail) + 1, Len(s)) = tail

RECURSIVE join(_, _)
\* sep.join(parts)
join(sep, parts) ==
    IF Len(parts) = 0 THEN ""
    ELSE IF Len(parts) = 1 THEN parts[1]
    ELSE parts[1] \o sep \o join(sep, Tail(parts))

-----------------------------------------------------------------------------
(* Constants for image handling, and pathlib *)

\* str(IMAGE_DIR), taken relative to BASE_DIR
IMAGE_DIR == "images"

SUPPORTED_FORMATS == <<".jpg", ".jpeg", ".png", ".gif", ".webp">>

SupportedSet == {SUPPORTED_FORMATS[i] : i \in 1..Len(SUPPORTED_FORMATS)}

\* IMAGE_DIR / image_name : joining the empty string gives the directory itself
PathJoin(dir, image_name) ==
    IF image_name = "" THEN dir ELSE dir \o "/" \o image_name

\* Path.name : the final component of the path
PathName(path) == SubSeq(path, rfind(path, "/") + 1, Len(path))

\* Path.suffix : from the last dot of the final component, unless that dot is
\* its first or its last character
PathSuffix(path) ==
    LET name == PathName(path)
        i    == rfind(name, ".")
    IN  IF 1 < i /\ i < Len(name) THEN SubSeq(name, i, Len(name)) ELSE ""

\* Path.exists for paths under IMAGE_DIR; the directory itself exists, and
\* entry names compare exactly (a case-sensitive file system)
PathExists(fs, path) ==
    \/ path = IMAGE_DIR
    \/ \E f \in fs : path = PathJoin(IMAGE_DIR, f)

-----------------------------------------------------------------------------
(* get_image_path *)

Returned(v) == [kind |-> "return", value |-> v]
Raised(exc, msg) == [kind |-> "raise", exc |-> exc, msg |-> msg]
NoResult == [kind |-> "none"]

\* a not-found message that leaves the name out
NotFoundMessageAnonymous(image_name) ==
    "Image not found in " \o IMAGE_DIR \o " or format not supported. "
        \o "Supported formats: " \o join(", ", SUPPORTED_FORMATS)

\* the ValueError message of lines 54-55
NotFoundMessage(image_name) ==
    "Image '" \o image_name \o "' not found in " \o IMAGE_DIR
        \o " or format not supported. "
        \o "Supported formats: " \o join(", ", SUPPORTED_FORMATS)

RECURSIVE TryExtensionsLast(_, _, _)
\* the loop run backwards: the last extension that exists wins
TryExtensionsLast(fs, image_name, i) ==
    IF i > Len(SUPPORTED_FORMATS) THEN NoResult
    ELSE LET later == TryExtensionsLast(fs, image_name, i + 1)
             path  == PathJoin(IMAGE_DIR, image_name \o SUPPORTED_FORMATS[i])
         IN  IF later.kind = "return" THEN later
             ELSE IF PathExists(fs, path) THEN Returned(path)
             ELSE NoResult

RECURSIVE TryExtensions(_, _, _)
\* the for loop of lines 49-52, from the i-th extension on
TryExtensions(fs, image_name, i) ==
    IF i > Len(SUPPORTED_FORMATS) THEN NoResult
    ELSE LET path == PathJoin(IMAGE_DIR, image_name \o SUPPORTED_FORMATS[i])
         IN  IF PathExists(fs, path) THEN Returned(path)
             ELSE TryExtensions(fs, image_name, i + 1)

\* a resolver that never appends an extension
get_image_path_exact_only(fs, image_name) ==
    LET path == PathJoin(IMAGE_DIR, image_name)
    IN  IF PathExists(fs, path) /\ lower(PathSuffix(path)) \in SupportedSet
        THEN Returned(path)
        ELSE Raised("ValueError", NotFoundMessage(image_name))

\* a resolver that appends extensions to dotted names too
get_image_path_always_guess(fs, image_name) ==
    LET path == PathJoin(IMAGE_DIR, image_name)
        guess == TryExtensions(fs, image_name, 1)
    IN  IF PathExists(fs, path) /\ lower(PathSuffix(path)) \in SupportedSet
        THEN Returned(path)
        ELSE IF guess.kind = "return" THEN guess
        ELSE Raised("ValueError", NotFoundMessage(image_name))

get_image_path(fs, image_name) ==
    LET path == PathJoin(IMAGE_DIR, image_name)
        guess == IF ~Contains(image_name, ".")
                 THEN TryExtensions(fs, image_name, 1)
                 ELSE NoResult
    IN  IF PathExists(fs, path) /\ lower(PathSuffix(path)) \in SupportedSet
        THEN Returned(path)
        ELSE IF guess.kind = "return" THEN guess
        ELSE Raised("ValueError", NotFoundMessage(image_name))

-----------------------------------------------------------------------------
(* Inputs of the resolver *)

\* the entries an image directory may hold
FileUniverse ==
    {"cat.jpg", "cat.jpeg", "cat.png", "cat.gif", "cat.webp",
     "cat", "dog.bmp", "a.b.png", ".a.png", ".jpg", "CAT.PNG"}

\* the names asked for
Names ==
    FileUniverse \cup {"", "CAT", "cat.PNG", "dog", "a.b", ".a", "missing"}

InitCommon ==
    /\ op = "init"
    /\ args = <<>>
    /\ res = NoResult
    /\ ret = NoResult
    /\ calls = 0
    /\ resolved = <<>>
    /\ env = NoResult
    /\ status = "running"
    /\ fault = ""
    /\ out = <<>>
    /\ quitSeen = FALSE

\* one direct call of get_image_path on a fresh directory state
Resolve(image_name) ==
    /\ op = "init"
    /\ op' = "get_image_path"
    /\ args' = <<image_name>>
    /\ res' = get_image_path(files, image_name)
    /\ UNCHANGED <<files, ret, calls, resolved, env, status, fault, out, quitSeen>>

ResolveInit == files \in SUBSET FileUniverse /\ InitCommon
ResolveNext == \E image_name \in Names : Resolve(image_name)
ResolveSpec == ResolveInit /\ [][ResolveNext]_vars

-----------------------------------------------------------------------------
(* The vision client: analyze_image and compare_images *)

\* The environment of one invocation: opens[i] is what Image.open does with
\* the i-th image, gen what generate_content / response.text do.
GenText(t) == [kind |-> "text", text |-> t]
GenFail(exc, msg) == [kind |-> "fail", exc |-> exc, msg |-> msg]

GenOutcomes ==
    {GenText("A cat on a sofa."),
     GenText(""),
     GenFail("ServiceUnavailable", "503 model overloaded"),
     GenFail("ValueError", "response has no valid part")}

OpenOutcomes == {<<"ok", "ok">>, <<"fail", "ok">>, <<"ok", "fail">>}

Envs == [opens : OpenOutcomes, gen : GenOutcomes]

OpenErrorMessage(path) == "cannot identify image file '" \o path \o "'"

DefaultPrompt == "Describe this image in detail."

Invocation(r, n, rs) == [ret |-> r, calls |-> n, resolved |-> rs]

\* lines 80-83 without the else branch: the text is returned as it is
AnalyzeTextVerbatim(text) == text

\* lines 80-83: the text when there is one, the fallback otherwise
AnalyzeText(text) ==
    IF text # "" THEN text ELSE "No analysis generated for the image."

\* the try block of analyze_image, lines 60-83
AnalyzeBody(fs, image_name, prompt, e) ==
    LET image_path == get_image_path(fs, image_name)
    IN  IF image_path.kind = "raise"
        THEN Invocation(image_path, 0, <<image_path>>)
        ELSE IF e.opens[1] = "fail"
        THEN Invocation(Raised("UnidentifiedImageError", OpenErrorMessage(image_path.value)),
                        0, <<image_path>>)
        ELSE IF e.gen.kind = "fail"
        THEN Invocation(Raised(e.gen.exc, e.gen.msg), 1, <<image_path>>)
        ELSE Invocation(Returned(AnalyzeText(e.gen.text)), 1, <<image_path>>)

\* analyze_image without its except clause
analyze_image_uncaught(fs, image_name, prompt, e) ==
    AnalyzeBody(fs, image_name, prompt, e)

\* analyze_image calling the model a second time when the first call fails
analyze_image_retry(fs, image_name, prompt, e) ==
    LET body == AnalyzeBody(fs, image_name, prompt, e)
    IN  IF body.ret.kind = "raise"
        THEN [body EXCEPT !.ret = Returned("Error analyzing image: " \o body.ret.msg),
                          !.calls = IF body.calls > 0 THEN body.calls + 1 ELSE 0]
        ELSE body

\* analyze_image, lines 57-86: the try block, and the except clause that turns
\* every exception into a string
analyze_image(fs, image_name, prompt, e) ==
    LET body == AnalyzeBody(fs, image_name, prompt, e)
    IN  IF body.ret.kind = "raise"
        THEN [body EXCEPT !.ret = Returned("Error analyzing image: " \o body.ret.msg)]
        ELSE body

\* the try block of compare_images, lines 91-112
CompareBody(fs, image1_name, image2_name, e) ==
    LET image1_path == get_image_path(fs, image1_name)
        image2_path == get_image_path(fs, image2_name)
    IN  IF image1_path.kind = "raise"
        THEN Invocation(image1_path, 0, <<image1_path>>)
        ELSE IF image2_path.kind = "raise"
        THEN Invocation(image2_path, 0, <<image1_path, image2_path>>)
        ELSE IF e.opens[1] = "fail"
        THEN Invocation(Raised("UnidentifiedImageError", OpenErrorMessage(image1_path.value)),
                        0, <<image1_path, image2_path>>)
        ELSE IF e.opens[2] = "fail"
        THEN Invocation(Raised("UnidentifiedImageError", OpenErrorMessage(image2_path.value)),
                        0, <<image1_path, image2_path>>)
        ELSE IF e.gen.kind = "fail"
        THEN Invocation(Raised(e.gen.exc, e.gen.msg), 1, <<image1_path, image2_path>>)
        ELSE Invocation(Returned(e.gen.text), 1, <<image1_path, image2_path>>)

\* compare_images without its except clause
compare_images_uncaught(fs, image1_name, image2_name, e) ==
    CompareBody(fs, image1_name, image2_name, e)

\* compare_images, lines 88-115
compare_images(fs, image1_name, image2_name, e) ==
    LET body == CompareBody(fs, image1_name, image2_name, e)
    IN  IF body.ret.kind = "raise"
        THEN [body EXCEPT !.ret = Returned("Error comparing images: " \o body.ret.msg)]
        ELSE body

\* the directories and names the client is called with
ClientFiles == {"cat.png", "cat.jpg", "dog.bmp", "CAT.PNG"}
ClientNames == {"cat", "cat.png", "dog", "dog.bmp", "CAT.PNG", "missing"}
Prompts == {DefaultPrompt, "What animal is this?"}

\* one call of analyze_image; every call is an independent request
Analyze(image_name, prompt, e) ==
    LET inv == analyze_image(files, image_name, prompt, e)
    IN  /\ op = "init"
        /\ op' = "analyze_image"
        /\ args' = <<image_name, prompt>>
        /\ env' = e
        /\ ret' = inv.ret
        /\ calls' = inv.calls
        /\ resolved' = inv.resolved
        /\ UNCHANGED <<files, res, status, fault, out, quitSeen>>

\* one call of compare_images; every call is an independent request
Compare(image1_name, image2_name, e) ==
    LET inv == compare_images(files, image1_name, image2_name, e)
    IN  /\ op = "init"
        /\ op' = "compare_images"
        /\ args' = <<image1_name, image2_name>>
        /\ env' = e
        /\ ret' = inv.ret
        /\ calls' = inv.calls
        /\ resolved' = inv.resolved
        /\ UNCHANGED <<files, res, status, fault, out, quitSeen>>

ClientInit == files \in SUBSET ClientFiles /\ InitCommon
ClientNext ==
    \/ \E image_name \in ClientNames, prompt \in Prompts, e \in Envs :
          Analyze(image_name, prompt, e)
    \/ \E image1_name \in ClientNames, image2_name \in ClientNames, e \in Envs :
          Compare(image1_name, image2_name, e)
ClientSpec == ClientInit /\ [][ClientNext]_vars

-----------------------------------------------------------------------------
(* The command loop of main, lines 128-175 *)

\* input(...).strip().split() yields non-empty tokens; the lines read are the
\* empty line and a verb followed by at most MaxArgs arguments
Verbs == {"quit", "QUIT", "list", "analyze", "compare", "Compare", "help"}
CliTokens == {"cat", "dog"}
ArgLists == UNION {[1..n -> CliTokens] : n \in 0..MaxArgs}
Lines == {<<>>} \cup {<<v>> \o a : v \in Verbs, a \in ArgLists}

CliFiles == {"cat.png", "dog.bmp"}
CliEnvs == {e \in Envs : e.opens[2] = "ok" /\ e.gen \in
               {GenText("A cat on a sofa."), GenText(""),
                GenFail("ValueError", "response has no valid part")}}

Verb(command) == lower(command[1])

\* what the loop does with the outcome of a client call made inside
\* try: ... except ValueError as e: print(f"\nError: {e}")
\* (lines 151-160 and 167-172); before holds what the try block printed before
\* the call, heading what it prints after it
PrintOutcome(before, heading, r) ==
    IF r.kind = "return"
    THEN [out |-> before \o <<heading, r.value>>, status |-> "running", fault |-> ""]
    ELSE IF r.exc = "ValueError"
    THEN [out |-> before \o <<"\nError: " \o r.msg>>, status |-> "running", fault |-> ""]
    ELSE [out |-> before, status |-> "crashed", fault |-> r.exc]

\* lines 131-132: an empty line is skipped
ReadEmpty ==
    /\ status = "running"
    /\ op' = "main"
    /\ args' = <<>>
    /\ out' = <<>>
    /\ ret' = NoResult
    /\ env' = NoResult
    /\ calls' = 0
    /\ resolved' = <<>>
    /\ UNCHANGED <<files, res, status, fault, quitSeen>>

\* lines 134-135: quit leaves the loop
ReadQuit(command) ==
    /\ status = "running"
    /\ command # <<>>
    /\ Verb(command) = "quit"
    /\ op' = "main"
    /\ args' = command
    /\ out' = <<>>
    /\ status' = "exited"
    /\ quitSeen' = TRUE
    /\ ret' = NoResult
    /\ env' = NoResult
    /\ calls' = 0
    /\ resolved' = <<>>
    /\ UNCHANGED <<files, res, fault>>

\* lines 137-144: list calls list_available_images, a name the module neither
\* defines nor imports, so the call raises NameError outside any try block
ReadList(command) ==
    /\ status = "running"
    /\ command # <<>>
    /\ Verb(command) = "list"
    /\ op' = "main"
    /\ args' = command
    /\ out' = <<>>
    /\ status' = "crashed"
    /\ fault' = "NameError"
    /\ ret' = NoResult
    /\ env' = NoResult
    /\ calls' = 0
    /\ resolved' = <<>>
    /\ UNCHANGED <<files, res, quitSeen>>

\* lines 146-160: analyze <image> [prompt...]
ReadAnalyze(command, e) ==
    /\ status = "running"
    /\ command # <<>>
    /\ Verb(command) = "analyze"
    /\ op' = "main"
    /\ args' = command
    /\ IF Len(command) < 2
       THEN /\ out' = <<"Please specify an image name.">>
            /\ ret' = NoResult
            /\ env' = NoResult
            /\ calls' = 0
            /\ resolved' = <<>>
            /\ UNCHANGED <<status, fault>>
       ELSE LET image_name == command[2]
                prompt == IF Len(command) > 2
                          THEN join(" ", SubSeq(command, 3, Len(command)))
                          ELSE DefaultPrompt
                inv == analyze_image(files, image_name, prompt, e)
                shown == PrintOutcome(<<"\nAnalyzing image...">>,
                                      "\nAnalysis Result:", inv.ret)
            IN  /\ out' = shown.out
                /\ status' = shown.status
                /\ fault' = shown.fault
                /\ ret' = inv.ret
                /\ env' = e
                /\ calls' = inv.calls
                /\ resolved' = inv.resolved
    /\ UNCHANGED <<files, res, quitSeen>>

\* lines 162-172: compare <image1> <image2>
ReadCompare(command, e) ==
    /\ status = "running"
    /\ command # <<>>
    /\ Verb(command) = "compare"
    /\ op' = "main"
    /\ args' = command
    /\ IF Len(command) # 3
       THEN /\ out' = <<"Please specify two images to compare.">>
            /\ ret' = NoResult
            /\ env' = NoResult
            /\ calls' = 0
            /\ resolved' = <<>>
            /\ UNCHANGED <<status, fault>>
       ELSE LET inv == compare_images(files, command[2], command[3], e)
                shown == PrintOutcome(<<>>, "\nComparison Result:", inv.ret)
            IN  /\ out' = shown.out
                /\ status' = shown.status
                /\ fault' = shown.fault
                /\ ret' = inv.ret
                /\ env' = e
                /\ calls' = inv.calls
                /\ resolved' = inv.resolved
    /\ UNCHANGED <<files, res, quitSeen>>

\* lines 174-175: any other verb
ReadInvalid(command) ==
    /\ status = "running"
    /\ command # <<>>
    /\ Verb(command) \notin {"quit", "list", "analyze", "compare"}
    /\ op' = "main"
    /\ args' = command
    /\ out' = <<"Invalid command. Please try again.">>
    /\ ret' = NoResult
    /\ env' = NoResult
    /\ calls' = 0
    /\ resolved' = <<>>
    /\ UNCHANGED <<files, res, status, fault, quitSeen>>

Init == files \in SUBSET CliFiles /\ InitCommon
Next ==
    \/ ReadEmpty
    \/ \E command \in Lines : ReadQuit(command)
    \/ \E command \in Lines : ReadList(command)
    \/ \E command \in Lines, e \in CliEnvs : ReadAnalyze(command, e)
    \/ \E command \in Lines, e \in CliEnvs : ReadCompare(command, e)
    \/ \E command \in Lines : ReadInvalid(command)
Spec == Init /\ [][Next]_vars

-----------------------------------------------------------------------------
(* Properties of get_image_path, checked under ResolveSpec *)

Asked == op = "get_image_path"
AskedName == args[1]

\* the allow-listed extensions e for which the directory holds name + e
Matches(name) == {i \in 1..Len(SUPPORTED_FORMATS) : (name \o SUPPORTED_FORMATS[i]) \in files}

Min(S) == CHOOSE i \in S : \A j \in S : i <= j

\* C3 as stated: for every supported extension E and every file name.E of the
\* directory, asking for name returns name.E when it is the only file
\* name.<supported extension>, and asking for name.E returns name.E; here for
\* every name, dotted or empty ones included.
C3_Original ==
    Asked =>
        /\ \A i \in 1..Len(SUPPORTED_FORMATS) :
              Matches(AskedName) = {i}
                  => res = Returned(PathJoin(IMAGE_DIR, AskedName \o SUPPORTED_FORMATS[i]))
        /\ \A i \in 1..Len(SUPPORTED_FORMATS) :
              (AskedName \in files /\ EndsWith(AskedName, SUPPORTED_FORMATS[i]))
                  => res = Returned(PathJoin(IMAGE_DIR, AskedName))

\* C3 amended: asking for a name that contains no '.' returns name.E when
\* name.E is the only file name.<supported extension> of the directory, and
\* asking for name.E with a non-empty name returns name.E when it is present.
C3_ResolveByNameOrFullName ==
    Asked =>
        /\ \A i \in 1..Len(SUPPORTED_FORMATS) :
              (~Contains(AskedName, ".") /\ Matches(AskedName) = {i})
                  => res = Returned(PathJoin(IMAGE_DIR, AskedName \o SUPPORTED_FORMATS[i]))
        /\ \A i \in 1..Len(SUPPORTED_FORMATS) :
              (/\ AskedName \in files
               /\ EndsWith(AskedName, SUPPORTED_FORMATS[i])
               /\ Len(AskedName) > Len(SUPPORTED_FORMATS[i]))
                  => res = Returned(PathJoin(IMAGE_DIR, AskedName))

C3_Witness ==
    /\ Asked
    /\ AskedName = "cat"
    /\ Matches("cat") = {4}
    /\ res = Returned("images/cat.gif")

\* C4: when the directory holds neither the name nor the name followed by an
\* allow-listed extension, get_image_path raises a ValueError whose message
\* says "not found" and contains the name; no path is returned.
C4_NotFoundNamesTheImage ==
    (Asked /\ AskedName \notin files /\ Matches(AskedName) = {})
        => /\ res.kind = "raise"
           /\ res.exc = "ValueError"
           /\ HasSubstring(res.msg, "not found")
           /\ HasSubstring(res.msg, AskedName)

C4_Witness ==
    /\ Asked
    /\ AskedName = "missing"
    /\ files # {}
    /\ res.kind = "raise"
    /\ HasSubstring(res.msg, "'missing'")

\* C5 as stated: every path get_image_path returns has an extension of the
\* allow-list (compared without regard to case), and a name whose only match
\* has an unsupported extension makes the resolver fail.
C5_ReturnedExtensionAllowListed ==
    Asked =>
        /\ res.kind = "return" => lower(PathSuffix(res.value)) \in SupportedSet
        /\ (/\ AskedName \in {"dog", "dog.bmp"}
            /\ "dog.bmp" \in files
            /\ Matches("dog") = {}) => res.kind = "raise"

\* C8: a name with no '.' that matches files differing only in their
\* allow-listed extension resolves to the one whose extension is first in the
\* order jpg, jpeg, png, gif, webp, whichever of the five are present.
C8_FirstExtensionInOrderWins ==
    (Asked /\ ~Contains(AskedName, ".") /\ Matches(AskedName) # {})
        => res = Returned(PathJoin(IMAGE_DIR,
                     AskedName \o SUPPORTED_FORMATS[Min(Matches(AskedName))]))

C8_Witness ==
    /\ Asked
    /\ AskedName = "cat"
    /\ Matches("cat") = {2, 4, 5}
    /\ res = Returned("images/cat.jpeg")

\* C10: for a name that contains a '.', get_image_path returns the directory
\* joined with the name as given when that file exists and its lower-cased
\* suffix is allow-listed, and fails otherwise; no extension is appended.
C10_DottedNameNeverGuessed ==
    (Asked /\ Contains(AskedName, "."))
        => IF AskedName \in files /\ lower(PathSuffix(AskedName)) \in SupportedSet
           THEN res = Returned(IMAGE_DIR \o "/" \o AskedName)
           ELSE res.kind = "raise"

C10_Witness ==
    /\ Asked
    /\ AskedName = "a.b"
    /\ "a.b.png" \in files
    /\ res.kind = "raise"

-----------------------------------------------------------------------------
(* Properties of the vision client, checked under ClientSpec *)

Invoked == op \in {"analyze_image", "compare_images"}

ErrorPrefix == IF op = "analyze_image" THEN "Error analyzing image: "
               ELSE "Error comparing images: "

\* every get_image_path call of the invocation returned a path
AllResolved == \A i \in 1..Len(resolved) : resolved[i].kind = "return"

\* every image the invocation opens could be opened
AllOpened ==
    IF op = "analyze_image" THEN env.opens[1] = "ok"
    ELSE env.opens[1] = "ok" /\ env.opens[2] = "ok"

\* the model was reached and produced text t
ModelSaid(t) == AllResolved /\ AllOpened /\ env.gen = GenText(t)

\* C1 as stated: the call returns a string that is either the model's content
\* or starts with "Error analyzing image: " / "Error comparing images: ".
C1_Original ==
    Invoked =>
        /\ ret.kind = "return"
        /\ \/ ModelSaid(ret.value)
           \/ StartsWith(ret.value, ErrorPrefix)

\* C1 amended: no fault leaves analyze_image or compare_images; the value
\* returned is the model's content, the fallback string of analyze_image when
\* the model returned empty text, or a string starting with the error prefix.
C1_NeverRaisesReturnsString ==
    Invoked =>
        /\ ret.kind = "return"
        /\ \/ ModelSaid(ret.value)
           \/ /\ op = "analyze_image"
              /\ ModelSaid("")
              /\ ret.value = "No analysis generated for the image."
           \/ StartsWith(ret.value, ErrorPrefix)

C1_Witness ==
    /\ op = "compare_images"
    /\ args = <<"cat", "missing">>
    /\ "cat.png" \in files
    /\ resolved[2].kind = "raise"
    /\ ret.kind = "return"
    /\ StartsWith(ret.value, "Error comparing images: Image 'missing' not found")

\* C6 as stated: with the image resolved and the model call successful,
\* analyze_image returns "No analysis generated." for empty text and the text
\* itself otherwise.
C6_Original ==
    (op = "analyze_image" /\ AllResolved /\ AllOpened /\ env.gen.kind = "text")
        => ret = Returned(IF env.gen.text = ""
                          THEN "No analysis generated."
                          ELSE env.gen.text)

\* C6 amended: the fallback string is "No analysis generated for the image.";
\* non-empty text is returned unchanged.
C6_FallbackForEmptyText ==
    (op = "analyze_image" /\ AllResolved /\ AllOpened /\ env.gen.kind = "text")
        => ret = Returned(IF env.gen.text = ""
                          THEN "No analysis generated for the image."
                          ELSE env.gen.text)

C6_Witness ==
    /\ op = "analyze_image"
    /\ args[1] = "cat"
    /\ AllResolved
    /\ AllOpened
    /\ env.gen = GenText("")
    /\ ret = Returned("No analysis generated for the image.")

\* C9 as stated: every invocation of analyze_image or compare_images makes
\* one generate_content call, whatever the inputs and the outcome.
C9_Original == Invoked => calls = 1

\* C9 amended: an invocation makes at most one generate_content call and
\* never repeats it: one when every image resolved and opened, none when a
\* resolution or an image load failed first.
C9_AtMostOneCallNoRetry ==
    Invoked => calls = (IF AllResolved /\ AllOpened THEN 1 ELSE 0)

C9_Witness ==
    /\ op = "analyze_image"
    /\ AllResolved
    /\ AllOpened
    /\ env.gen.kind = "fail"
    /\ calls = 1
    /\ StartsWith(ret.value, "Error analyzing image: 503")

-----------------------------------------------------------------------------
(* Properties of the command loop, checked under Spec *)

\* the last line read was an analyze or compare command that reached the client
ClientCommand ==
    /\ op = "main"
    /\ args # <<>>
    /\ \/ Verb(args) = "analyze" /\ Len(args) >= 2
       \/ Verb(args) = "compare" /\ Len(args) = 3

\* the last line read was malformed: a wrong argument count or an unknown verb
Malformed ==
    /\ op = "main"
    /\ args # <<>>
    /\ \/ Verb(args) = "analyze" /\ Len(args) < 2
       \/ Verb(args) = "compare" /\ Len(args) # 3
       \/ Verb(args) \notin {"quit", "list", "analyze", "compare"}

\* a get_image_path call of the last command raised
ResolutionFailed == ClientCommand /\ resolved[Len(resolved)].kind = "raise"

PrintedErrorLine ==
    \E i \in 1..Len(out) : StartsWith(out[i], "Error: ") \/ StartsWith(out[i], "\nError: ")

\* C2: quit is the only terminal transition of the loop: as long as no line
\* read had quit as its first token the loop is still running, and a malformed
\* command prints a message and leaves the loop running.
C2_QuitIsOnlyTerminalTransition ==
    /\ ~quitSeen => status = "running"
    /\ Malformed => (out # <<>> /\ status = "running")

\* C7 as stated: a resolution error during an analyze or compare command
\* reaches the loop as a fault, which the loop catches, printing a message
\* starting with "Error: ", and the loop continues.
C7_Original ==
    ResolutionFailed =>
        /\ ret.kind = "raise"
        /\ PrintedErrorLine
        /\ status = "running"

\* C7 amended: a resolution error during an analyze or compare command is
\* caught inside analyze_image / compare_images and returned as the string
\* "Error analyzing image: <message>" / "Error comparing images: <message>";
\* the loop prints that string as the result, prints no line starting with
\* "Error: ", and continues.
C7_ResolutionErrorPrintedAsResult ==
    ResolutionFailed =>
        LET msg == resolved[Len(resolved)].msg
            text == IF Verb(args) = "analyze"
                    THEN "Error analyzing image: " \o msg
                    ELSE "Error comparing images: " \o msg
        IN  /\ ret = Returned(text)
            /\ out[Len(out)] = text
            /\ out[Len(out) - 1] = (IF Verb(args) = "analyze"
                                    THEN "\nAnalysis Result:"
                                    ELSE "\nComparison Result:")
            /\ ~PrintedErrorLine
            /\ status = "running"

C7_Witness ==
    /\ op = "main"
    /\ args = <<"analyze", "dog">>
    /\ "dog.bmp" \in files
    /\ resolved[1].kind = "raise"
    /\ Len(out) = 3
    /\ StartsWith(out[3], "Error analyzing image: Image 'dog' not found in images")
    /\ status = "running"

====
